---------------------------- MODULE Spec2Model ----------------------------
(***************************************************************************)
(* A model of collection_json.py: the Collection+JSON object model, its    *)
(* construction from raw (decoded JSON) values, serialisation with         *)
(* to_dict, and the name/rel lookup of Array.                              *)
(*                                                                         *)
(* Python values are records tagged with a "kind" field:                   *)
(*   None, str, int, list, dict (a function from keys to values), the      *)
(*   entity classes (Collection, Error, Template, Array, Item, Data,       *)
(*   Query, Link), and "raise" for a call that ends with an exception.     *)
(***************************************************************************)
EXTENDS Integers, Sequences, FiniteSets, TLC

(***************************************************************************)
(* The fields of the model's records, each with what it holds.  Records    *)
(* are written with their fields in this order throughout.                 *)
(***************************************************************************)
Layout ==
    [kind |-> "the class of a value, or raise",
     s |-> "the characters of a str", n |-> "the number of an int",
     elems |-> "the elements of a list or an Array, in order",
     d |-> "the key-value mapping of a dict",
     exc |-> "the class of a raised exception", msg |-> "its message",
     cls |-> "the class the message names", value |-> "Data.value, or the value a message names",
     valid |-> "whether a text is valid JSON", json |-> "the JSON value a text encodes",
     item_class |-> "Array.item_class", collection_name |-> "Array.collection_name",
     version |-> "Collection.version", href |-> "href of Collection, Item, Query, Link",
     rel |-> "rel of Query, Link", name |-> "name of Data, Query, Link",
     render |-> "Link.render", prompt |-> "prompt of Data, Query, Link",
     data |-> "the data Array of Template, Item, Query",
     links |-> "the links Array of Collection, Item",
     items |-> "Collection.items", queries |-> "Collection.queries",
     template |-> "Collection.template", error |-> "Collection.error",
     code |-> "Error.code", message |-> "Error.message", title |-> "Error.title",
     self |-> "the object of a bound method",
     op |-> "the lookup called", attr |-> "the attribute looked up",
     idx |-> "the position of the item looked up on"]

(***************************************************************************)
(* Bounds of the model                                                     *)
(***************************************************************************)
\* longest raw sequence handed to an Array constructed directly
MaxLen == 2
\* most items in the items array of a document
MaxItems == 2

(***************************************************************************)
(* Python values                                                           *)
(***************************************************************************)
NoneV == [kind |-> "None"]
StrV(s) == [kind |-> "str", s |-> s]
IntV(n) == [kind |-> "int", n |-> n]
List(q) == [kind |-> "list", elems |-> q]
Dict(f) == [kind |-> "dict", d |-> f]
EmptyD == [k \in {} |-> NoneV]

\* a call that raises: the exception class, its message, and the class and
\* value the message names (NoCls / Unnamed when it names none)
NoCls == ""
Unnamed == [kind |-> "unnamed"]
Raise(exc, msg, cls, value) ==
    [kind |-> "raise", exc |-> exc, msg |-> msg, cls |-> cls, value |-> value]
IsRaise(v) == v.kind = "raise"

\* bool(v) of the interpreter: None, "", 0, an empty list/dict and an empty
\* Array (a list subclass) are falsy; other objects define neither __bool__
\* nor __len__ and are truthy
Truthy(v) ==
    CASE v.kind = "None" -> FALSE
      [] v.kind = "str" -> v.s # ""
      [] v.kind = "int" -> v.n # 0
      [] v.kind = "list" -> v.elems # <<>>
      [] v.kind = "Array" -> v.elems # <<>>
      [] v.kind = "dict" -> DOMAIN v.d # {}
      [] OTHER -> TRUE

\* dict.get(key) with None as default
DictGet(f, k) == IF k \in DOMAIN f THEN f[k] ELSE NoneV

\* the union of two mappings, f taking precedence on a common key
f ++ g == [k \in DOMAIN f \cup DOMAIN g |-> IF k \in DOMAIN f THEN f[k] ELSE g[k]]

\* dict.update: keys of g override those of f
Update(f, g) == g ++ f

\* the first exception of a sequence of results, in order (0 if none)
RECURSIVE FirstRaise(_, _)
FirstRaise(q, i) ==
    IF i > Len(q) THEN 0
    ELSE IF IsRaise(q[i]) THEN i
    ELSE FirstRaise(q, i + 1)

(***************************************************************************)
(* Constructors                                                            *)
(***************************************************************************)
\* the keyword parameters of each __init__ and those without a default
Params(cls) ==
    CASE cls = "Collection" ->
            {"href", "links", "items", "queries", "template", "error", "version"}
      [] cls = "Error" -> {"code", "message", "title"}
      [] cls = "Template" -> {"data"}
      [] cls = "Item" -> {"href", "data", "links"}
      [] cls = "Data" -> {"name", "value", "prompt"}
      [] cls = "Query" -> {"href", "rel", "name", "prompt", "data"}
      [] cls = "Link" -> {"href", "rel", "name", "render", "prompt"}

Required(cls) ==
    CASE cls = "Collection" -> {"href"}
      [] cls = "Data" -> {"name"}
      [] cls = "Query" -> {"href", "rel"}
      [] cls = "Link" -> {"href", "rel"}
      [] OTHER -> {}

RECURSIVE Call(_, _)
RECURSIVE Array_init(_, _, _)

\* _from_iterable_to_array(cls, name, iterable)
from_iterable_to_array(cls, name, iterable) ==
    Array_init(cls, name, IF iterable = NoneV THEN List(<<>>) ELSE iterable)

\* _from_dict_or_value(value, cls)
from_dict_or_value(value, cls) ==
    IF value = NoneV \/ value.kind = cls THEN value
    ELSE IF value.kind = "dict" THEN Call(cls, value.d)
    ELSE Raise("TypeError", "Invalid value, expected dict or", cls, value)

\* `for item in items`: the sequence an iterable yields (a str yields its
\* characters; the model's non-empty strs in this position have one
\* character); a value that is not Iterable raises TypeError instead
Iterate(items) ==
    IF items.kind = "str" THEN (IF items.s = "" THEN <<>> ELSE <<items>>)
    ELSE items.elems

Iterable(items) == items.kind \in {"list", "Array", "str"}

\* Array._build_items raising TypeError, as _from_dict_or_value does, for an
\* element that is neither an instance nor a dict
Array_build_items_TypeError(item_class, items) ==
    IF ~Iterable(items)
    THEN Raise("TypeError", "object is not iterable", NoCls, Unnamed)
    ELSE LET it == Iterate(items)
             conv(item) ==
                 IF item.kind = item_class THEN item
                 ELSE IF item.kind = "dict" THEN Call(item_class, item.d)
                 ELSE Raise("TypeError", "Invalid value for", item_class, item)
             res == [i \in 1..Len(it) |-> conv(it[i])]
             bad == FirstRaise(res, 1)
         IN  IF bad # 0 THEN res[bad] ELSE List(res)

\* Array._build_items: each element converted in order, stopping at the
\* first element that fails
Array_build_items(item_class, items) ==
    IF ~Iterable(items)
    THEN Raise("TypeError", "object is not iterable", NoCls, Unnamed)
    ELSE LET it == Iterate(items)
             conv(item) ==
                 IF item.kind = item_class THEN item
                 ELSE IF item.kind = "dict" THEN Call(item_class, item.d)
                 ELSE Raise("ValueError", "Invalid value for", item_class, item)
             res == [i \in 1..Len(it) |-> conv(it[i])]
             bad == FirstRaise(res, 1)
         IN  IF bad # 0 THEN res[bad] ELSE List(res)

\* Array.__init__(item_class, collection_name, items)
Array_init(item_class, collection_name, items) ==
    LET r == Array_build_items(item_class, items)
    IN  IF IsRaise(r) THEN r
        ELSE [kind |-> "Array", elems |-> r.elems, item_class |-> item_class,
              collection_name |-> collection_name]

\* an __init__ whose property setters run in the order given: the first
\* setter that raises ends the construction
Built(parts, obj) ==
    LET bad == FirstRaise(parts, 1)
    IN  IF bad # 0 THEN parts[bad] ELSE obj

Error_init(code, message, title) ==
    [kind |-> "Error", code |-> code, message |-> message, title |-> title]

Data_init(name, value, prompt) ==
    [kind |-> "Data", value |-> value, name |-> name, prompt |-> prompt]

Link_init(href, rel, name, render, prompt) ==
    [kind |-> "Link", href |-> href, rel |-> rel, name |-> name,
     render |-> render, prompt |-> prompt]

Template_init(data) ==
    LET a == from_iterable_to_array("Data", "data", data)
    IN  Built(<<a>>, [kind |-> "Template", data |-> a])

Query_init(href, rel, name, prompt, data) ==
    LET a == from_iterable_to_array("Data", "data", data)
    IN  Built(<<a>>, [kind |-> "Query", href |-> href, rel |-> rel,
                      name |-> name, prompt |-> prompt, data |-> a])

Item_init(href, data, links) ==
    LET a == from_iterable_to_array("Data", "data", data)
        l == from_iterable_to_array("Link", "links", links)
    IN  Built(<<a, l>>, [kind |-> "Item", href |-> href, data |-> a, links |-> l])

Collection_init(href, links, items, queries, template, error, version) ==
    LET e == from_dict_or_value(error, "Error")
        t == from_dict_or_value(template, "Template")
        i == from_iterable_to_array("Item", "items", items)
        l == from_iterable_to_array("Link", "links", links)
        q == from_iterable_to_array("Query", "queries", queries)
    IN  Built(<<e, t, i, l, q>>,
              [kind |-> "Collection", version |-> version, href |-> href,
               links |-> l, items |-> i, queries |-> q, template |-> t,
               error |-> e])

\* cls(**kwargs): the interpreter rejects an unknown or a missing keyword
\* with TypeError before __init__ runs; omitted keywords take their defaults
Call(cls, kwargs) ==
    LET a(k) == DictGet(kwargs, k)
    IN  IF ~(DOMAIN kwargs \subseteq Params(cls))
        THEN Raise("TypeError", "unexpected keyword argument", NoCls, Unnamed)
        ELSE IF ~(Required(cls) \subseteq DOMAIN kwargs)
        THEN Raise("TypeError", "missing required argument", NoCls, Unnamed)
        ELSE CASE cls = "Collection" ->
                    Collection_init(a("href"), a("links"), a("items"), a("queries"),
                                    a("template"), a("error"),
                                    IF "version" \in DOMAIN kwargs
                                    THEN kwargs["version"] ELSE StrV("1.0"))
               [] cls = "Error" -> Error_init(a("code"), a("message"), a("title"))
               [] cls = "Template" -> Template_init(a("data"))
               [] cls = "Item" -> Item_init(a("href"), a("data"), a("links"))
               [] cls = "Data" -> Data_init(a("name"), a("value"), a("prompt"))
               [] cls = "Query" ->
                    Query_init(a("href"), a("rel"), a("name"), a("prompt"), a("data"))
               [] cls = "Link" ->
                    Link_init(a("href"), a("rel"), a("name"), a("render"), a("prompt"))

(***************************************************************************)
(* Serialisation                                                           *)
(***************************************************************************)
\* {key: value} when cond holds, else nothing: `if cond: output[key] = value`
Opt(cond, key, value) == IF cond THEN key :> value ELSE EmptyD

RECURSIVE to_dict(_)

\* Array.to_dict
Array_to_dict(self) ==
    self.collection_name :>
        List([i \in 1..Len(self.elems) |-> Dict(to_dict(self.elems[i]))])

\* Data.to_dict
Data_to_dict(self) ==
    LET o1 == "name" :> self.name
        o2 == Update(o1, Opt(self.value # NoneV, "value", self.value))
    IN  Update(o2, Opt(self.prompt # NoneV, "prompt", self.prompt))

\* Link.to_dict
Link_to_dict(self) ==
    LET o1 == ("href" :> self.href) ++ ("rel" :> self.rel)
        o2 == Update(o1, Opt(self.name # NoneV, "name", self.name))
        o3 == Update(o2, Opt(self.render # NoneV, "render", self.render))
    IN  Update(o3, Opt(self.prompt # NoneV, "prompt", self.prompt))

\* Query.to_dict
Query_to_dict(self) ==
    LET o1 == ("href" :> self.href) ++ ("rel" :> self.rel)
        o2 == Update(o1, Opt(self.name # NoneV, "name", self.name))
        o3 == Update(o2, Opt(self.prompt # NoneV, "prompt", self.prompt))
    IN  IF Len(self.data.elems) # 0
        THEN Update(o3, Array_to_dict(self.data)) ELSE o3

\* Item.to_dict
Item_to_dict(self) ==
    LET o1 == Opt(Truthy(self.href), "href", self.href)
        o2 == IF Truthy(self.data) THEN Update(o1, Array_to_dict(self.data)) ELSE o1
    IN  IF Truthy(self.links) THEN Update(o2, Array_to_dict(self.links)) ELSE o2

\* Error.to_dict
Error_to_dict(self) ==
    LET o1 == Opt(Truthy(self.code), "code", self.code)
        o2 == Update(o1, Opt(Truthy(self.message), "message", self.message))
        o3 == Update(o2, Opt(Truthy(self.title), "title", self.title))
    IN  "error" :> Dict(o3)

\* Template.to_dict
Template_to_dict(self) == "template" :> Dict(Array_to_dict(self.data))

\* Collection.to_dict testing items against None instead of its truth value
Collection_to_dict_ItemsNotNone(self) ==
    LET o0 == ("version" :> self.version) ++ ("href" :> self.href)
        o1 == IF Truthy(self.links) THEN Update(o0, Array_to_dict(self.links)) ELSE o0
        o2 == IF self.items # NoneV THEN Update(o1, Array_to_dict(self.items)) ELSE o1
        o3 == IF Truthy(self.queries) THEN Update(o2, Array_to_dict(self.queries)) ELSE o2
        o4 == IF Truthy(self.template) THEN Update(o3, Template_to_dict(self.template)) ELSE o3
        o5 == IF Truthy(self.error) THEN Update(o4, Error_to_dict(self.error)) ELSE o4
    IN  "collection" :> Dict(o5)

\* Collection.to_dict
Collection_to_dict(self) ==
    LET o0 == ("version" :> self.version) ++ ("href" :> self.href)
        o1 == IF Truthy(self.links) THEN Update(o0, Array_to_dict(self.links)) ELSE o0
        o2 == IF Truthy(self.items) THEN Update(o1, Array_to_dict(self.items)) ELSE o1
        o3 == IF Truthy(self.queries) THEN Update(o2, Array_to_dict(self.queries)) ELSE o2
        o4 == IF Truthy(self.template) THEN Update(o3, Template_to_dict(self.template)) ELSE o3
        o5 == IF Truthy(self.error) THEN Update(o4, Error_to_dict(self.error)) ELSE o4
    IN  "collection" :> Dict(o5)

\* item.to_dict() by the class of item
to_dict(self) ==
    CASE self.kind = "Collection" -> Collection_to_dict(self)
      [] self.kind = "Error" -> Error_to_dict(self)
      [] self.kind = "Template" -> Template_to_dict(self)
      [] self.kind = "Array" -> Array_to_dict(self)
      [] self.kind = "Item" -> Item_to_dict(self)
      [] self.kind = "Data" -> Data_to_dict(self)
      [] self.kind = "Query" -> Query_to_dict(self)
      [] self.kind = "Link" -> Link_to_dict(self)

(***************************************************************************)
(* JSON text.  A text is either not valid JSON or the encoding of one JSON *)
(* value; the json library decodes what it encoded.                        *)
(***************************************************************************)
InvalidText == [valid |-> FALSE, json |-> NoneV]
json_dumps(v) == [valid |-> TRUE, json |-> v]
json_loads(t) ==
    IF t.valid THEN t.json
    ELSE Raise("ValueError", "No JSON object could be decoded", NoCls, Unnamed)

\* Collection.__str__
Collection_str(self) == json_dumps(Dict(Collection_to_dict(self)))

\* the body shared by Collection.from_json and Template.from_json: decode,
\* take the value under `key`, construct `cls` from it.  Only ValueError is
\* caught and replaced by the fixed message.
FromJsonOf(data, key, cls, message) ==
    LET loaded == json_loads(data)
        kwargs == loaded.d[key]
    IN  IF IsRaise(loaded)
        THEN Raise("ValueError", message, NoCls, Unnamed)
        ELSE IF loaded.kind # "dict"
        THEN Raise("AttributeError", "object has no attribute 'get'", NoCls, Unnamed)
        ELSE IF key \notin DOMAIN loaded.d \/ ~Truthy(kwargs)
        THEN Raise("ValueError", message, NoCls, Unnamed)
        ELSE IF kwargs.kind # "dict"
        THEN Raise("TypeError", "argument after ** must be a mapping", NoCls, Unnamed)
        ELSE Call(cls, kwargs.d)

CollectionMessage == "Not a valid Collection+JSON document."
TemplateMessage == "Not valid Collection+JSON template data."

\* Collection.from_json
Collection_from_json(data) ==
    FromJsonOf(data, "collection", "Collection", CollectionMessage)

\* Template.from_json
Template_from_json(data) ==
    FromJsonOf(data, "template", "Template", TemplateMessage)

(***************************************************************************)
(* Lookup                                                                  *)
(***************************************************************************)
\* attributes found by the normal lookup, for which __getattr__ is not called
ArrayAttrs == {"item_class", "collection_name", "find", "get", "to_dict"}
ItemAttrs == {"href", "data", "links", "properties", "to_dict"}
TemplateAttrs == {"data", "properties", "to_dict", "from_json"}

Method(self, name) == [kind |-> "method", name |-> name, self |-> self]
AttributeError == Raise("AttributeError", "", NoCls, Unnamed)

RECURSIVE Array_find(_, _, _)

\* Array.__getattr__ returning the first match whenever there is one
Array_getattr_First(self, name) ==
    LET results == Array_find(self, StrV(name), NoneV)
    IN  IF ~Truthy(results) THEN AttributeError ELSE results.elems[1]

\* Array.__getattr__(name)
Array_getattr(self, name) ==
    LET results == Array_find(self, StrV(name), NoneV)
    IN  IF ~Truthy(results) THEN AttributeError
        ELSE IF Len(results.elems) = 1 THEN results.elems[1]
        ELSE results

\* getattr(array, name): the normal lookup first, then __getattr__
Array_attr(self, name) ==
    CASE name = "item_class" -> [kind |-> "class", name |-> self.item_class]
      [] name = "collection_name" -> StrV(self.collection_name)
      [] name \in ArrayAttrs \ {"item_class", "collection_name"} -> Method(self, name)
      [] OTHER -> Array_getattr(self, name)

\* __getattr__ of an Item forwarding to its links instead of its data
Item_getattr_Links(self, name) ==
    Array_attr(IF self.kind = "Item" THEN self.links ELSE self.data, name)

\* Item.__getattr__(name) and Template.__getattr__(name)
Item_getattr(self, name) == Array_attr(self.data, name)

\* the `properties` property of Item and Template
Properties(self) == List([i \in 1..Len(self.data.elems) |-> self.data.elems[i].name])

\* getattr(item, name) for an Item or a Template
Item_attr(self, name) ==
    CASE name = "data" -> self.data
      [] name = "properties" -> Properties(self)
      [] name = "href" /\ self.kind = "Item" -> self.href
      [] name = "links" /\ self.kind = "Item" -> self.links
      [] name = "to_dict" -> Method(self, name)
      [] name = "from_json" /\ self.kind = "Template" -> Method(self, name)
      [] OTHER -> Item_getattr(self, name)

\* getattr(item, attr, None) for attr "name" or "rel", as _matches calls it
GetattrOrNone(item, attr) ==
    CASE item.kind \in {"Link", "Query"} -> item[attr]
      [] item.kind = "Data" -> IF attr = "name" THEN item.name ELSE NoneV
      [] item.kind \in {"Item", "Template"} ->
            LET r == Item_attr(item, attr)
            IN  IF IsRaise(r) THEN NoneV ELSE r
      [] OTHER -> NoneV

\* _matches with the branch for both keys only
Yields_BothOnly(item, name, rel) ==
    GetattrOrNone(item, "name") = name /\ GetattrOrNone(item, "rel") = rel

\* _matches yielding nothing when neither key is given
Yields_NoDegenerate(item, name, rel) ==
    LET item_name == GetattrOrNone(item, "name")
        item_rel == GetattrOrNone(item, "rel")
    IN  IF name # NoneV /\ item_name = name /\ rel = NoneV THEN TRUE
        ELSE IF rel # NoneV /\ item_rel = rel /\ name = NoneV THEN TRUE
        ELSE IF name # NoneV /\ rel # NoneV /\ item_name = name /\ item_rel = rel
        THEN TRUE
        ELSE FALSE

\* the condition under which _matches yields item
Yields(item, name, rel) ==
    LET item_name == GetattrOrNone(item, "name")
        item_rel == GetattrOrNone(item, "rel")
    IN  IF name # NoneV /\ item_name = name /\ rel = NoneV THEN TRUE
        ELSE IF rel # NoneV /\ item_rel = rel /\ name = NoneV THEN TRUE
        ELSE IF item_name = name /\ item_rel = rel THEN TRUE
        ELSE FALSE

\* next() of the generator Array._matches resumed at position i: the
\* position of the next item yielded, 0 when the generator is exhausted
RECURSIVE Array_matches(_, _, _, _)
Array_matches(self, i, name, rel) ==
    IF i > Len(self.elems) THEN 0
    ELSE IF Yields(self.elems[i], name, rel) THEN i
    ELSE Array_matches(self, i + 1, name, rel)

\* list(generator): every item yielded from position i on
RECURSIVE Drain(_, _, _, _)
Drain(self, i, name, rel) ==
    LET j == Array_matches(self, i, name, rel)
    IN  IF j = 0 THEN <<>>
        ELSE <<self.elems[j]>> \o Drain(self, j + 1, name, rel)

\* Array.find
Array_find(self, name, rel) == List(Drain(self, 1, name, rel))

\* Array.get returning the last match
Array_get_Last(self, name, rel) ==
    LET found == Drain(self, 1, name, rel)
    IN  IF found = <<>>
        THEN Raise("ValueError", "No matching item found.", NoCls, Unnamed)
        ELSE found[Len(found)]

\* Array.get
Array_get(self, name, rel) ==
    LET j == Array_matches(self, 1, name, rel)
    IN  IF j = 0
        THEN Raise("ValueError", "No matching item found.", NoCls, Unnamed)
        ELSE self.elems[j]

(***************************************************************************)
(* Inputs: raw values, documents and texts                                 *)
(***************************************************************************)
SeqsUpTo(S, n) == UNION {[1..k -> S] : k \in 0..n}

\* an optional key of a JSON object: absent, or present with one of vals
OptKey(key, vals) == {EmptyD} \cup {key :> v : v \in vals}

\* every union of one function from each of two sets
Join(A, B) == {a ++ b : a \in A, b \in B}

DataN == Dict(("name" :> StrV("n")) ++ ("value" :> StrV("v")))
DataJ ==
    { DataN,
      Dict("name" :> StrV("n")),
      Dict(("name" :> StrV("m")) ++ ("value" :> StrV(""))),
      Dict(("name" :> StrV("name")) ++ ("value" :> NoneV) ++ ("prompt" :> StrV("p"))) }

\* link objects: rel is a required key (its value may be null), name optional
LinkJ ==
    { Dict(f) : f \in Join({"href" :> StrV("/l")},
                      Join({"rel" :> r : r \in {StrV("x"), StrV("y"), NoneV}},
                           OptKey("name", {StrV("a")}))) }
LinkFull ==
    Dict(("href" :> StrV("/l")) ++ ("rel" :> StrV("y")) ++ ("name" :> StrV("a"))
         ++ ("render" :> StrV("")) ++ ("prompt" :> StrV("p")))
LinkX == Dict(("href" :> StrV("/l")) ++ ("rel" :> StrV("x")))

ItemOne == Dict(("href" :> StrV("/i/1")) ++ ("data" :> List(<<DataN>>)))
ItemTwo ==
    Dict(("href" :> StrV("")) ++ ("data" :> List(<<Dict("name" :> StrV("n")), DataN>>)))
ItemNamed ==
    Dict(("data" :> List(<<Dict(("name" :> StrV("name")) ++ ("value" :> StrV("v")))>>))
         ++ ("links" :> List(<<LinkX>>)))
ItemJ == {ItemOne, ItemTwo, ItemNamed}

QueryY == Dict(("href" :> StrV("/q")) ++ ("rel" :> StrV("y")))
QueryFull ==
    Dict(("href" :> StrV("/q")) ++ ("rel" :> StrV("x")) ++ ("name" :> StrV("a"))
         ++ ("prompt" :> StrV("")) ++ ("data" :> List(<<DataN>>)))
QueryJ == {QueryY, QueryFull}

ErrorJ ==
    { NoneV, Dict(EmptyD),
      Dict(("code" :> StrV("c")) ++ ("title" :> StrV("t"))),
      Dict("message" :> StrV("")),
      Dict("code" :> IntV(0)) }

TemplateJ ==
    { Dict(EmptyD), Dict("data" :> List(<<>>)),
      Dict("data" :> List(<<DataN, Dict("name" :> StrV("m"))>>)) }

\* the objects under "collection" that construct a Collection
CollectionJ ==
    Join({"href" :> StrV("/h")},
    Join(OptKey("items", {List(q) : q \in SeqsUpTo(ItemJ, MaxItems)}),
    Join(OptKey("links", {List(<<LinkX, LinkFull>>)}),
    Join(OptKey("queries", {List(<<QueryY, QueryFull>>)}),
    Join(OptKey("template", TemplateJ),
         OptKey("error", ErrorJ))))))

\* objects under "collection" that are empty, not a mapping, or that the
\* constructors reject
BadCollectionJ ==
    { NoneV, Dict(EmptyD), List(<<>>), StrV(""), IntV(0), IntV(5), List(<<IntV(1)>>),
      Dict("version" :> StrV("1.0")),
      Dict(("href" :> StrV("/h")) ++ ("bogus" :> IntV(1))),
      Dict(("href" :> NoneV) ++ ("version" :> StrV("2"))),
      Dict(("href" :> StrV("/h")) ++ ("items" :> IntV(5))),
      Dict(("href" :> StrV("/h")) ++ ("items" :> List(<<IntV(5)>>))),
      Dict(("href" :> StrV("/h")) ++ ("error" :> IntV(5))),
      Dict(("href" :> StrV("/h")) ++ ("template" :> List(<<>>))) }

\* top-level JSON values that are no object, or lack both keys
OddJson == { List(<<>>), NoneV, IntV(5), StrV("s"), Dict(EmptyD),
             Dict("other" :> Dict(EmptyD)) }

TemplateDocs ==
    { Dict("template" :> t) :
        t \in TemplateJ \cup {NoneV, List(<<>>), IntV(5),
                              Dict("data" :> IntV(5)), Dict("bogus" :> IntV(1))} }
CollectionDocs == { Dict("collection" :> Dict(c)) : c \in CollectionJ }
BadCollectionDocs == { Dict("collection" :> c) : c \in BadCollectionJ }

OddTexts == {InvalidText} \cup {json_dumps(v) : v \in OddJson}
TemplateTexts == {json_dumps(v) : v \in TemplateDocs}
CollectionTexts == {json_dumps(v) : v \in CollectionDocs \cup BadCollectionDocs}

\* typed instances a caller may hand to a constructor
ItemInst == Item_init(StrV("/i/9"), List(<<DataN>>), NoneV)
ErrorInst == Error_init(StrV("c"), NoneV, NoneV)
TemplateInst == Template_init(List(<<DataN>>))
LinkInst == Link_init(StrV("/l"), StrV("x"), StrV("b"), NoneV, NoneV)

\* values a caller may give for a Collection's items, error and template
RawItemElems ==
    {Dict(EmptyD), ItemOne, ItemNamed, ItemInst, IntV(5), Dict("bogus" :> IntV(1)), LinkInst}
RawItems ==
    {NoneV, IntV(5), StrV(""), StrV("a")}
        \cup {List(q) : q \in SeqsUpTo(RawItemElems, MaxLen)}
RawErrors == {NoneV, ErrorInst, Dict("code" :> StrV("c")), IntV(5), StrV("e")}
RawTemplates == {NoneV, TemplateInst, Dict("data" :> List(<<DataN>>)), IntV(5)}

\* raw sequences for an Array constructed directly, by element class
RawArrays(cls) ==
    CASE cls = "Link" -> {List(q) : q \in SeqsUpTo(LinkJ \cup {LinkInst}, MaxLen)}
      [] cls = "Item" -> RawItems
      [] cls = "Data" -> {List(q) : q \in SeqsUpTo(DataJ, MaxLen)}
      [] cls = "Query" -> {List(q) : q \in SeqsUpTo(QueryJ, MaxLen)}

WireName(cls) ==
    CASE cls = "Link" -> "links" [] cls = "Item" -> "items"
      [] cls = "Data" -> "data" [] cls = "Query" -> "queries"

\* the arguments of the lookups
Names == {StrV("a"), StrV("b"), StrV("n"), StrV("name")}
Rels == {StrV("x"), StrV("y")}
AttrNames == {"a", "n", "name", "rel", "href", "collection_name", "zz"}

(***************************************************************************)
(* The caller: state and operations                                        *)
(***************************************************************************)
VARIABLES
    via,    \* the call that made obj or arr (NoVia when none)
    args,   \* the typed arguments of that call, for a constructor
    text,   \* the text last handed to from_json (NoText when none)
    obj,    \* what the last from_json or Collection(...) returned or raised
    out,    \* obj.to_dict(), None before the call
    back,   \* from_json of the encoded out, None before the call
    arr,    \* the Array the lookups are called on
    call,   \* the last lookup call and its arguments
    res     \* what the last lookup returned or raised

vars == <<via, args, text, obj, out, back, arr, call, res>>

NoVia == "none"
NoArgs == [cls |-> NoCls, items |-> NoneV, template |-> NoneV, error |-> NoneV]
TheArgs(cls, items, template, error) ==
    [cls |-> cls, items |-> items, template |-> template, error |-> error]

NoText == [valid |-> FALSE, json |-> Unnamed]
NoCall == [rel |-> NoneV, name |-> NoneV, op |-> "none", attr |-> "", idx |-> 0]
TheCall(op, name, rel, attr, idx) ==
    [rel |-> rel, name |-> name, op |-> op, attr |-> attr, idx |-> idx]

Init ==
    /\ via = NoVia
    /\ args = NoArgs
    /\ text = NoText
    /\ obj = NoneV
    /\ out = NoneV
    /\ back = NoneV
    /\ arr = NoneV
    /\ call = NoCall
    /\ res = NoneV

\* nothing has been built or parsed yet
Idle == obj = NoneV /\ arr = NoneV

\* nothing is derived yet from a document object just made
Underived ==
    /\ out' = NoneV
    /\ back' = NoneV
    /\ arr' = NoneV
    /\ call' = NoCall
    /\ res' = NoneV

\* obj = Collection.from_json(t)
FromJson ==
    /\ Idle
    /\ \E t \in OddTexts \cup TemplateTexts \cup CollectionTexts :
        /\ text' = t
        /\ obj' = Collection_from_json(t)
    /\ via' = "Collection.from_json"
    /\ args' = NoArgs
    /\ Underived

\* obj = Template.from_json(t)
TemplateFromJson ==
    /\ Idle
    /\ \E t \in OddTexts \cup TemplateTexts \cup {json_dumps(v) : v \in BadCollectionDocs} :
        /\ text' = t
        /\ obj' = Template_from_json(t)
    /\ via' = "Template.from_json"
    /\ args' = NoArgs
    /\ Underived

\* obj = Collection(href, items=i, template=t, error=e)
Construct ==
    /\ Idle
    /\ \E i \in RawItems, t \in RawTemplates, e \in RawErrors :
        /\ obj' = Collection_init(StrV("/h"), NoneV, i, NoneV, t, e, StrV("1.0"))
        /\ args' = TheArgs("Collection", i, t, e)
    /\ via' = "Collection"
    /\ text' = NoText
    /\ Underived

\* out = obj.to_dict()
ToDict ==
    /\ obj.kind \in {"Collection", "Template"}
    /\ out = NoneV
    /\ call = NoCall
    /\ out' = Dict(to_dict(obj))
    /\ UNCHANGED <<via, args, text, obj, back, arr, call, res>>

\* back = from_json(json.dumps(out)), by the class of obj
Reparse ==
    /\ out # NoneV
    /\ back = NoneV
    /\ back' = IF obj.kind = "Collection"
               THEN Collection_from_json(json_dumps(out))
               ELSE Template_from_json(json_dumps(out))
    /\ UNCHANGED <<via, args, text, obj, out, arr, call, res>>

\* the arrays a document object owns, its items' and queries' included
ArraysOf(o) ==
    CASE o.kind = "Template" -> {o.data}
      [] o.kind = "Collection" ->
            {o.items, o.links, o.queries}
            \cup {o.items.elems[i].data : i \in 1..Len(o.items.elems)}
            \cup {o.items.elems[i].links : i \in 1..Len(o.items.elems)}
            \cup {o.queries.elems[i].data : i \in 1..Len(o.queries.elems)}
            \cup (IF o.template = NoneV THEN {} ELSE {o.template.data})
      [] OTHER -> {}

\* arr = one of the arrays of obj; the lookups below read nothing else
TakeArray ==
    /\ call = NoCall /\ out = NoneV
    /\ \E a \in ArraysOf(obj) : arr' = a
    /\ via' = "property"
    /\ args' = NoArgs
    /\ text' = NoText
    /\ obj' = NoneV
    /\ out' = NoneV
    /\ back' = NoneV
    /\ call' = NoCall
    /\ res' = NoneV

\* arr = Array(cls, name, raw)
NewArray ==
    /\ Idle
    /\ \E cls \in {"Link", "Item", "Data", "Query"} :
        \E raw \in RawArrays(cls) :
            /\ arr' = Array_init(cls, WireName(cls), raw)
            /\ args' = TheArgs(cls, raw, NoneV, NoneV)
            /\ via' = "Array"
            /\ text' = NoText
            /\ obj' = NoneV
            /\ out' = NoneV
            /\ back' = NoneV
            /\ call' = NoCall
            /\ res' = NoneV

\* res = arr.find(name, rel)
Find ==
    /\ arr.kind = "Array"
    /\ call = NoCall
    /\ \E name \in Names \cup {NoneV}, rel \in Rels \cup {NoneV} :
        /\ call' = TheCall("find", name, rel, "", 0)
        /\ res' = Array_find(arr, name, rel)
    /\ UNCHANGED <<via, args, text, obj, out, back, arr>>

\* res = arr.get(name, rel)
Get ==
    /\ arr.kind = "Array"
    /\ call = NoCall
    /\ \E name \in Names \cup {NoneV}, rel \in Rels \cup {NoneV} :
        /\ call' = TheCall("get", name, rel, "", 0)
        /\ res' = Array_get(arr, name, rel)
    /\ UNCHANGED <<via, args, text, obj, out, back, arr>>

\* res = getattr(arr, X)
Attr ==
    /\ arr.kind = "Array"
    /\ call = NoCall
    /\ \E X \in AttrNames :
        /\ call' = TheCall("attr", NoneV, NoneV, X, 0)
        /\ res' = Array_attr(arr, X)
    /\ UNCHANGED <<via, args, text, obj, out, back, arr>>

\* res = getattr(arr[i], X) on an array of items
ItemAttr ==
    /\ arr.kind = "Array"
    /\ call = NoCall
    /\ arr.item_class = "Item"
    /\ \E i \in 1..Len(arr.elems), X \in AttrNames :
        /\ call' = TheCall("item_attr", NoneV, NoneV, X, i)
        /\ res' = Item_attr(arr.elems[i], X)
    /\ UNCHANGED <<via, args, text, obj, out, back, arr>>

\* res = getattr(obj, X) on a parsed Template
TemplateAttr ==
    /\ obj.kind = "Template"
    /\ call = NoCall /\ out = NoneV
    /\ \E X \in AttrNames :
        /\ call' = TheCall("template_attr", NoneV, NoneV, X, 0)
        /\ res' = Item_attr(obj, X)
    /\ UNCHANGED <<via, args, text, obj, out, back, arr>>

\* res = obj.items.get(name=n) on a parsed Collection
ItemsGet ==
    /\ obj.kind = "Collection"
    /\ call = NoCall /\ out = NoneV
    /\ \E n \in Names :
        /\ call' = TheCall("items_get", n, NoneV, "", 0)
        /\ res' = Array_get(obj.items, n, NoneV)
    /\ UNCHANGED <<via, args, text, obj, out, back, arr>>

\* res = getattr(obj.items[0], X) on a parsed Collection
FirstItemAttr ==
    /\ obj.kind = "Collection"
    /\ call = NoCall /\ out = NoneV
    /\ Len(obj.items.elems) > 0
    /\ \E X \in AttrNames :
        /\ call' = TheCall("first_item_attr", NoneV, NoneV, X, 1)
        /\ res' = Item_attr(obj.items.elems[1], X)
    /\ UNCHANGED <<via, args, text, obj, out, back, arr>>

\* the caller drops every object it holds
Discard ==
    /\ ~Idle
    /\ via' = NoVia
    /\ args' = NoArgs
    /\ text' = NoText
    /\ obj' = NoneV
    /\ out' = NoneV
    /\ back' = NoneV
    /\ arr' = NoneV
    /\ call' = NoCall
    /\ res' = NoneV

Next ==
    \/ FromJson
    \/ TemplateFromJson
    \/ Construct
    \/ ToDict
    \/ Reparse
    \/ TakeArray
    \/ NewArray
    \/ Find
    \/ Get
    \/ Attr
    \/ ItemAttr
    \/ TemplateAttr
    \/ ItemsGet
    \/ FirstItemAttr
    \/ Discard

Spec == Init /\ [][Next]_vars

(***************************************************************************)
(* Lookup: C2, C3, C4, C5, C10                                             *)
(***************************************************************************)
NameOf(e) == GetattrOrNone(e, "name")
RelOf(e) == GetattrOrNone(e, "rel")

\* the matching rule when at least one key is given
Rule(e, name, rel) ==
    CASE name # NoneV /\ rel = NoneV -> NameOf(e) = name
      [] name = NoneV /\ rel # NoneV -> RelOf(e) = rel
      [] OTHER -> NameOf(e) = name /\ RelOf(e) = rel

NotFound == Raise("ValueError", "No matching item found.", NoCls, Unnamed)

\* C2: find with a name only returns the elements of that name whatever
\* their rel, with a rel only those of that rel whatever their name, with
\* both those equal in both; in array order, each match once.
C2_FindRule ==
    (call.op = "find" /\ (call.name # NoneV \/ call.rel # NoneV)) =>
        LET Test(e) == Rule(e, call.name, call.rel)
        IN  res = List(SelectSeq(arr.elems, Test))

\* a find by name alone that returned two elements of different rel
C2_Witness ==
    /\ call.op = "find" /\ call.name # NoneV /\ call.rel = NoneV
    /\ Len(res.elems) = 2
    /\ RelOf(res.elems[1]) # RelOf(res.elems[2])
    /\ RelOf(res.elems[1]) # NoneV

\* an element with neither a name nor a rel
Nameless(e) == NameOf(e) = NoneV /\ RelOf(e) = NoneV

\* C3 as claimed: find with neither name nor rel returns an empty result
\* for every array.
C3_FindNeitherEmpty ==
    (call.op = "find" /\ call.name = NoneV /\ call.rel = NoneV) => res.elems = <<>>

\* C3 amended: find with neither name nor rel returns, in array order,
\* exactly the elements that have neither a name nor a rel.
C3_FindNeitherNameless ==
    (call.op = "find" /\ call.name = NoneV /\ call.rel = NoneV) =>
        res = List(SelectSeq(arr.elems, Nameless))

\* a find with neither key that returned some element and left out another
C3_Witness ==
    /\ call.op = "find" /\ call.name = NoneV /\ call.rel = NoneV
    /\ res.elems # <<>>
    /\ Len(res.elems) < Len(arr.elems)

\* C4: get returns the first element of what find returns for the same
\* arguments, raises the not-found error exactly when find returns nothing,
\* and leaves the array as it was.
C4_GetFirstOfFind ==
    /\ [](call.op = "get" =>
            LET found == Array_find(arr, call.name, call.rel).elems
            IN  IF found = <<>> THEN res = NotFound ELSE res = found[1])
    /\ [][call'.op = "get" => arr' = arr]_vars

\* a get that returned the first of two different matches
C4_Witness ==
    /\ call.op = "get"
    /\ LET found == Array_find(arr, call.name, call.rel).elems
       IN  Len(found) = 2 /\ found[1] # found[2] /\ res = found[1]

\* the outcome of looking up attribute X through __getattr__ of array a
AttrRule(a, X, r) ==
    LET Test(e) == NameOf(e) = StrV(X)
        m == SelectSeq(a.elems, Test)
    IN  CASE Len(m) = 0 -> r = AttributeError
          [] Len(m) = 1 -> r = m[1]
          [] OTHER -> r = List(m)

\* the outcome of getattr(a, X) on array a
ArrayLookup(a, X, r) ==
    IF X \in ArrayAttrs THEN r = Array_attr(a, X) ELSE AttrRule(a, X, r)

\* C5: an undefined attribute X of an Array is the single element named X,
\* the list of them when several, AttributeError when none; an attribute
\* not defined on an Item or Template is looked up on its data array.
C5_AttrLookup ==
    /\ (call.op = "attr" /\ call.attr \notin ArrayAttrs) =>
            AttrRule(arr, call.attr, res)
    /\ (call.op = "item_attr" /\ call.attr \notin ItemAttrs) =>
            ArrayLookup(arr.elems[call.idx].data, call.attr, res)
    /\ (call.op = "template_attr" /\ call.attr \notin TemplateAttrs) =>
            ArrayLookup(obj.data, call.attr, res)

\* an attribute of an item that resolved to the list of two data fields
C5_Witness ==
    /\ call.op = "item_attr"
    /\ call.attr \notin ItemAttrs
    /\ res.kind = "list"
    /\ Len(res.elems) = 2

\* the parsed collection holds one item with one data field, named as the
\* lookup asks
OneItemOneField(n) ==
    /\ via = "Collection.from_json"
    /\ obj.kind = "Collection"
    /\ Len(obj.items.elems) = 1
    /\ Len(obj.items.elems[1].data.elems) = 1
    /\ obj.items.elems[1].data.elems[1].name = n

Serialised == via = "Collection.from_json" /\ obj.kind = "Collection" /\ out # NoneV

\* the object emitted under "collection"
Emitted == out.d["collection"].d

\* C1 as claimed: a parsed document, serialised and parsed again, gives a
\* model equal to the first.
C1_RoundTrip == (Serialised /\ back # NoneV) => back = obj

\* key is emitted in dict d exactly when the field is not None
KeyIffPresent(d, key, field) == (key \in DOMAIN d) <=> (field # NoneV)

\* C6 as claimed: every optional scalar field of Error, Item, Data, Link and
\* Query is emitted exactly when it is not None, a falsy value included.
C6_OptionalFields ==
    Serialised =>
        /\ obj.error # NoneV =>
              \A k \in {"code", "message", "title"} :
                  KeyIffPresent(Emitted["error"].d, k, obj.error[k])
        /\ \A i \in 1..Len(obj.items.elems) :
              LET item == obj.items.elems[i]
                  d == Emitted["items"].elems[i].d
              IN  /\ KeyIffPresent(d, "href", item.href)
                  /\ \A j \in 1..Len(item.data.elems) :
                        \A k \in {"value", "prompt"} :
                            KeyIffPresent(d["data"].elems[j].d, k, item.data.elems[j][k])
        /\ \A i \in 1..Len(obj.links.elems) :
              \A k \in {"name", "render", "prompt"} :
                  KeyIffPresent(Emitted["links"].elems[i].d, k, obj.links.elems[i][k])
        /\ \A i \in 1..Len(obj.queries.elems) :
              \A k \in {"name", "prompt"} :
                  KeyIffPresent(Emitted["queries"].elems[i].d, k, obj.queries.elems[i][k])

\* some field of an Error is set
ErrorSet(e) == e.code # NoneV \/ e.message # NoneV \/ e.title # NoneV

\* C7 as claimed: a key is emitted only for a sub-entity that is neither
\* absent nor empty, an empty Template and an Error with no field included.
C7_NoEmptyKeys ==
    Serialised =>
        /\ {"version", "href"} \subseteq DOMAIN Emitted
        /\ \A k \in {"links", "items", "queries"} :
              (k \in DOMAIN Emitted) <=> (obj[k].elems # <<>>)
        /\ ("template" \in DOMAIN Emitted) <=>
              (obj.template # NoneV /\ obj.template.data.elems # <<>>)
        /\ ("error" \in DOMAIN Emitted) <=>
              (obj.error # NoneV /\ ErrorSet(obj.error))

\* C7 amended: version and href are always emitted; links, items and
\* queries exactly when the array is not empty; template and error exactly
\* when they are not None, so a Template with no data is emitted as
\* {"data": []} and an Error with no field as {}.
C7_Keys ==
    Serialised =>
        /\ {"version", "href"} \subseteq DOMAIN Emitted
        /\ \A k \in {"links", "items", "queries"} :
              (k \in DOMAIN Emitted) <=> (obj[k].elems # <<>>)
        /\ ("template" \in DOMAIN Emitted) <=> (obj.template # NoneV)
        /\ ("error" \in DOMAIN Emitted) <=> (obj.error # NoneV)
        /\ (obj.template # NoneV /\ obj.template.data.elems = <<>>) =>
              Emitted["template"] = Dict("data" :> List(<<>>))
        /\ (obj.error # NoneV /\ ~ErrorSet(obj.error)) =>
              Emitted["error"] = Dict(EmptyD)

\* a collection with no item, an empty Template and an empty Error, serialised
C7_Witness ==
    /\ Serialised
    /\ obj.items.elems = <<>>
    /\ obj.template # NoneV /\ obj.template.data.elems = <<>>
    /\ obj.error # NoneV /\ ~ErrorSet(obj.error)
    /\ "items" \notin DOMAIN Emitted
    /\ "template" \in DOMAIN Emitted

\* the texts C8 is about: not valid JSON, or a top-level value without the
\* key (a value that is no object included), or an empty value under the key
NoDocument(t, key) ==
    \/ ~t.valid
    \/ t.json.kind # "dict"
    \/ key \notin DOMAIN t.json.d
    \/ ~Truthy(t.json.d[key])

\* C8 as claimed: from_json raises the ValueError with the fixed message,
\* and no other error, for every such text.
C8_FormatError ==
    /\ (via = "Collection.from_json" /\ NoDocument(text, "collection")) =>
            obj = Raise("ValueError", CollectionMessage, NoCls, Unnamed)
    /\ (via = "Template.from_json" /\ NoDocument(text, "template")) =>
            obj = Raise("ValueError", TemplateMessage, NoCls, Unnamed)

(***************************************************************************)
(* Construction: C9                                                        *)
(***************************************************************************)
\* value is accepted where an Item is expected
Convertible(item) ==
    \/ item.kind = "Item"
    \/ item.kind = "dict" /\ ~IsRaise(Call("Item", item.d))

\* the position of the first element of q that is neither an Item nor a
\* map, when every element before it is accepted; 0 when there is none
RECURSIVE FirstAlien(_, _)
FirstAlien(q, i) ==
    IF i > Len(q) THEN 0
    ELSE IF q[i].kind \notin {"Item", "dict"} THEN i
    ELSE IF Convertible(q[i]) THEN FirstAlien(q, i + 1)
    ELSE 0

\* the items value of the last constructor call and what the call gave,
\* when it was decided by the items value
ItemsCall ==
    \/ via = "Array" /\ args.cls = "Item"
    \/ /\ via = "Collection"
       /\ ~IsRaise(from_dict_or_value(args.error, "Error"))
       /\ ~IsRaise(from_dict_or_value(args.template, "Template"))
ItemsResult == IF via = "Array" THEN arr ELSE obj

\* the items value is a bare integer, or a list whose first element not
\* accepted is neither an Item nor a map
BadItems ==
    \/ args.items.kind = "int"
    \/ args.items.kind = "list" /\ FirstAlien(args.items.elems, 1) # 0

\* value is not accepted for error or template: not None, not a map and not
\* an instance of cls
BadEntity(value, cls) == value.kind \notin {"None", "dict", cls}

\* C9 as claimed: such an items value fails with a TypeError that names the
\* offending value and Item, the kind of error a bad error or template gives.
C9_TypeErrorNamesItem ==
    (ItemsCall /\ BadItems) =>
        /\ ItemsResult.kind = "raise"
        /\ ItemsResult.exc = "TypeError"
        /\ ItemsResult.cls = "Item"

\* C9 amended: a list whose first element not accepted is neither an Item
\* nor a map fails with a ValueError naming that element and Item; a bare
\* integer fails with a TypeError naming neither; error or template set to
\* a value neither None, a map nor the entity fails with a TypeError naming
\* the value and the entity class.
C9_ConstructionErrors ==
    /\ (ItemsCall /\ args.items.kind = "list"
            /\ FirstAlien(args.items.elems, 1) # 0) =>
            ItemsResult = Raise("ValueError", "Invalid value for", "Item",
                                args.items.elems[FirstAlien(args.items.elems, 1)])
    /\ (ItemsCall /\ args.items.kind = "int") =>
            /\ ItemsResult.kind = "raise"
            /\ ItemsResult.exc = "TypeError"
            /\ ItemsResult.cls = NoCls
            /\ ItemsResult.value = Unnamed
    /\ (via = "Collection" /\ BadEntity(args.error, "Error")) =>
            obj = Raise("TypeError", "Invalid value, expected dict or", "Error", args.error)
    /\ (via = "Collection" /\ ~IsRaise(from_dict_or_value(args.error, "Error"))
            /\ BadEntity(args.template, "Template")) =>
            obj = Raise("TypeError", "Invalid value, expected dict or", "Template",
                        args.template)

\* Collection(items=[item, 5]) with an accepted item first: the ValueError
\* names 5 and Item
C9_Witness ==
    /\ via = "Collection"
    /\ args.items.kind = "list"
    /\ Len(args.items.elems) = 2
    /\ FirstAlien(args.items.elems, 1) = 2
    /\ obj = Raise("ValueError", "Invalid value for", "Item", IntV(5))

=============================================================================
